---- MODULE Spec2Model ----
(***************************************************************************)
(* Model of the contribution-details scripts: main.js (PRs grouped by      *)
(* repository, one report file per group) and the earlier single-list      *)
(* script (PRs printed to the console).                                    *)
(*                                                                         *)
(* Strings the code inspects character by character (URL path names,       *)
(* repository names, file names) are sequences of one-character strings.   *)
(* A merge timestamp is a pair <<day, hour>>; the absent/null timestamp is *)
(* NoTs.  A null or absent string is NoStr.                                *)
(***************************************************************************)
EXTENDS Naturals, Integers, Sequences, FiniteSets, TLC

\* ---------------------------------------------------------------- bounds
MaxItems == 2

\* ------------------------------------------------------ program constants
PageLimit == 30
DETAIL_FETCH_DELAY_MS == 50
START_DATE == "2024-04-01"
END_DATE == "2025-04-01"
OUTPUT_DIR == "github_prs_by_repo"

NoTs == <<>>
NoStr == "<null>"

\* ------------------------------------------------------------ input pools
ReposSegment == <<"r", "e", "p", "o", "s">>

PathAB == <<"/", "r", "e", "p", "o", "s", "/", "o", "/", "a", "b">>
PathAColonB == <<"/", "r", "e", "p", "o", "s", "/", "o", "/", "a", ":", "b">>
PathAStarB == <<"/", "r", "e", "p", "o", "s", "/", "o", "/", "a", "*", "b">>
PathConstructor == <<"/", "r", "e", "p", "o", "s", "/", "o", "/", "c", "o", "n", "s", "t", "r", "u", "c", "t", "o", "r">>
PathUsers == <<"/", "u", "s", "e", "r", "s", "/", "o", "/", "a", "b">>
PathShort == <<"/", "r", "e", "p", "o", "s", "/", "/", "a", "b", "/">>

\* What a search hit carries besides its number: the repository URL, as the
\* URL constructor sees it (it does not parse, or it parses and has the given
\* pathname), and the merge timestamp embedded in pull_request (NoTs when
\* absent or null).
SearchHitPool ==
    { [repository_url |-> [valid |-> TRUE, pathname |-> PathAB], merged_at |-> NoTs],
      [repository_url |-> [valid |-> TRUE, pathname |-> PathAB], merged_at |-> <<2, 0>>],
      [repository_url |-> [valid |-> TRUE, pathname |-> PathAColonB], merged_at |-> <<1, 12>>],
      [repository_url |-> [valid |-> TRUE, pathname |-> PathAStarB], merged_at |-> NoTs],
      [repository_url |-> [valid |-> TRUE, pathname |-> PathConstructor], merged_at |-> NoTs],
      [repository_url |-> [valid |-> TRUE, pathname |-> PathUsers], merged_at |-> <<2, 0>>],
      [repository_url |-> [valid |-> TRUE, pathname |-> PathShort], merged_at |-> NoTs],
      [repository_url |-> [valid |-> FALSE, pathname |-> <<>>], merged_at |-> NoTs] }

\* Responses of the detail endpoint.  status 0 stands for a network-level
\* failure (fetch rejects); ratelimit is x-ratelimit-remaining === '0'.
DetailResponsePool ==
    { [status |-> 200, ratelimit |-> FALSE, merged_at |-> NoTs, body |-> "text"],
      [status |-> 200, ratelimit |-> FALSE, merged_at |-> <<1, 0>>, body |-> NoStr],
      [status |-> 200, ratelimit |-> FALSE, merged_at |-> <<2, 12>>, body |-> ""],
      [status |-> 404, ratelimit |-> FALSE, merged_at |-> NoTs, body |-> NoStr],
      [status |-> 403, ratelimit |-> TRUE, merged_at |-> NoTs, body |-> NoStr],
      [status |-> 500, ratelimit |-> FALSE, merged_at |-> NoTs, body |-> NoStr],
      [status |-> 0, ratelimit |-> FALSE, merged_at |-> NoTs, body |-> NoStr] }

\* Sequences over S of length exactly n / at most n.
RECURSIVE SeqsOfLen(_, _)
SeqsOfLen(S, n) ==
    IF n = 0 THEN { <<>> }
    ELSE { <<x>> \o s : x \in S, s \in SeqsOfLen(S, n - 1) }

SeqsUpTo(S, n) ==
    UNION { SeqsOfLen(S, k) : k \in 0..n }

\* Number the hits of one page, continuing after the `base` hits already seen.
NumberHits(hits, base) ==
    [i \in 1..Len(hits) |->
        [number |-> base + i,
         repository_url |-> hits[i].repository_url,
         merged_at |-> hits[i].merged_at]]

\* Responses of the search endpoint when `base` hits have been returned so far.
SearchResponses(base) ==
    { [status |-> 200, ratelimit |-> FALSE, items |-> NumberHits(hits, base), link_next |-> nx] :
          hits \in SeqsUpTo(SearchHitPool, MaxItems - base), nx \in BOOLEAN }
    \cup
    { [status |-> 403, ratelimit |-> TRUE, items |-> <<>>, link_next |-> FALSE],
      [status |-> 500, ratelimit |-> FALSE, items |-> <<>>, link_next |-> FALSE],
      [status |-> 0, ratelimit |-> FALSE, items |-> <<>>, link_next |-> FALSE] }

\* A long result set: every non-empty page carries one and the same hit.
DeepSearchResponses(base) ==
    { [status |-> 200, ratelimit |-> FALSE, items |-> NumberHits(hits, base), link_next |-> nx] :
          hits \in { <<>>, << [repository_url |-> [valid |-> TRUE, pathname |-> PathAB],
                               merged_at |-> NoTs] >> },
          nx \in BOOLEAN }
    \cup
    { [status |-> 403, ratelimit |-> TRUE, items |-> <<>>, link_next |-> FALSE],
      [status |-> 500, ratelimit |-> FALSE, items |-> <<>>, link_next |-> FALSE],
      [status |-> 0, ratelimit |-> FALSE, items |-> <<>>, link_next |-> FALSE] }

\* ------------------------------------------------------------------ state
VARIABLES
    variant,        \* "grouped" (main.js) or "ungrouped" (single-list script)
    pc,             \* position of the run
    page,           \* fetchAllPages: page
    hasNextPage,    \* fetchAllPages: hasNextPage
    allItems,       \* fetchAllPages: allItems
    searchResults,  \* main: searchResults
    idx,            \* main: position of the for-of loop over searchResults
    cur,            \* main: owner/repoName of the item whose detail is awaited
    groupedPrs,     \* main: groupedPrs, its [repoName, prList] entries in insertion order
    dirExists,      \* file system: the output directory exists
    files,          \* file system: the [name, content] files inside the directory
    gi,             \* main: position of the loop over Object.entries(groupedPrs)
    filesWritten,   \* main: filesWritten
    writeFailed,    \* group indexes whose writeFileSync threw
    pageLog,        \* the search responses received, in order
    detailFailed,   \* numbers of the items whose detail request did not succeed
    printed,        \* console report of the single-list script
    exitCode,       \* -1 while running, else the process exit status
    trace           \* external operations in the order they were issued

vars == << variant, pc, page, hasNextPage, allItems, searchResults, idx, cur,
           groupedPrs, dirExists, files, gi, filesWritten, writeFailed,
           detailFailed, pageLog, printed, exitCode, trace >>

NoCur == [owner |-> <<>>, repoName |-> <<>>]
NoReport == [shown |-> FALSE, total |-> 0, noMatch |-> FALSE, entries |-> <<>>]

Ev(op, n) == [op |-> op, n |-> n]

Init ==
    /\ variant \in {"grouped", "ungrouped"}
    /\ pc = "search"
    /\ page = 1
    /\ hasNextPage = TRUE
    /\ allItems = <<>>
    /\ searchResults = <<>>
    /\ idx = 1
    /\ cur = NoCur
    /\ groupedPrs = <<>>
    /\ dirExists \in BOOLEAN
    /\ files = {}
    /\ gi = 1
    /\ filesWritten = 0
    /\ writeFailed = {}
    /\ detailFailed = {}
    /\ pageLog = <<>>
    /\ printed = NoReport
    /\ exitCode = -1
    /\ trace = <<>>

\* ---------------------------------------------------------- fetchAllPages
\* Mutation: only a rejected fetch counts as a failure.
ResponseOkLax(resp) == resp.status # 0

ResponseOk(resp) == resp.status >= 200 /\ resp.status <= 299

ItemsPresent(resp) == Len(resp.items) > 0

\* Mutation: the Link header is not consulted.
LinkHasNextIgnored(resp) == TRUE

LinkHasNext(resp) == resp.link_next

\* Mutation: the safety break compares with > instead of >=.
SafetyBreakOffByOne(p) == p > PageLimit

SafetyBreak(p) == p >= PageLimit

\* hasNextPage at the end of one successful pass of the while body.
HasNextAfter(resp, p) ==
    LET afterItems == IF ItemsPresent(resp) THEN TRUE ELSE FALSE
        afterLink == IF ~LinkHasNext(resp) THEN FALSE ELSE afterItems
    IN IF SafetyBreak(p) /\ afterLink THEN FALSE ELSE afterLink

\* One pass of the while body of fetchAllPages, the response being resp.
FetchPage(resp) ==
    /\ pc = "search"
    /\ hasNextPage
    /\ trace' = Append(trace, Ev("search", page))
    /\ IF ResponseOk(resp)
       THEN /\ allItems' = IF ItemsPresent(resp) THEN allItems \o resp.items ELSE allItems
            /\ hasNextPage' = HasNextAfter(resp, page)
            /\ page' = page + 1
            /\ pc' = "search"
       ELSE /\ hasNextPage' = FALSE
            /\ pc' = "threw"
            /\ UNCHANGED << allItems, page >>
    /\ pageLog' = Append(pageLog, resp)
    /\ UNCHANGED << variant, searchResults, idx, cur, groupedPrs, dirExists, files,
                    gi, filesWritten, writeFailed, detailFailed, printed, exitCode >>

SearchPage == \E resp \in SearchResponses(Len(allItems)) : FetchPage(resp)

SearchPageDeep == \E resp \in DeepSearchResponses(Len(allItems)) : FetchPage(resp)

\* The while loop is left and allItems is returned to main.
FetchAllPagesReturn ==
    /\ pc = "search"
    /\ ~hasNextPage
    /\ searchResults' = allItems
    /\ pc' = "main"
    /\ UNCHANGED << pageLog, variant, page, hasNextPage, allItems, idx, cur, groupedPrs, dirExists,
                    files, gi, filesWritten, writeFailed, detailFailed, printed,
                    exitCode, trace >>

\* The catch block of main: process.exit(1).
MainCatch ==
    /\ pc = "threw"
    /\ exitCode' = 1
    /\ pc' = "exited"
    /\ UNCHANGED << pageLog, variant, page, hasNextPage, allItems, searchResults, idx, cur,
                    groupedPrs, dirExists, files, gi, filesWritten, writeFailed,
                    detailFailed, printed, trace >>

\* ----------------------------------------------------------- parseRepoUrl
\* String.prototype.split('/').
RECURSIVE SplitSlash(_)
SplitSlash(s) ==
    IF s = <<>> THEN << <<>> >>
    ELSE LET rest == SplitSlash(Tail(s))
         IN IF Head(s) = "/" THEN << <<>> >> \o rest
            ELSE << <<Head(s)>> \o Head(rest) >> \o Tail(rest)

\* .filter(Boolean) on an array of strings.
FilterBoolean(parts) == SelectSeq(parts, LAMBDA part : part # <<>>)

\* owner and repoName of a repository URL; <<>> stands for null.
parseRepoUrl(repoUrl) ==
    IF ~repoUrl.valid THEN NoCur
    ELSE LET pathParts == FilterBoolean(SplitSlash(repoUrl.pathname))
         IN IF Len(pathParts) >= 3 /\ pathParts[1] = ReposSegment
            THEN [owner |-> pathParts[2], repoName |-> pathParts[3]]
            ELSE NoCur

Parseable(item) ==
    LET parsed == parseRepoUrl(item.repository_url)
    IN parsed.owner # <<>> /\ parsed.repoName # <<>>

\* --------------------------------------------------------- fetchPrDetails
NullDetails == [isNull |-> TRUE, merged_at |-> NoTs, body |-> NoStr]

\* The value fetchPrDetails resolves to for the response resp.
fetchPrDetails(resp) ==
    IF resp.status = 0 THEN NullDetails
    ELSE IF ~ResponseOk(resp)
         THEN IF resp.status = 403 /\ resp.ratelimit THEN NullDetails
              ELSE IF resp.status = 404 THEN NullDetails
              ELSE NullDetails
         ELSE [isNull |-> FALSE, merged_at |-> resp.merged_at, body |-> resp.body]

DetailFetchFailed(resp) == resp.status = 0 \/ ~ResponseOk(resp)

\* The prData object built from a search item and its details.
PrData(item, repoName, prDetails) ==
    [number |-> item.number,
     repoName |-> repoName,
     mergedAt |-> IF ~prDetails.isNull /\ prDetails.merged_at # NoTs
                  THEN prDetails.merged_at
                  ELSE item.merged_at,
     description |-> IF ~prDetails.isNull /\ prDetails.body \notin {NoStr, ""}
                     THEN prDetails.body
                     ELSE NoStr]

\* ------------------------------------------------- groupedPrs (a plain {})
\* Property names every plain object inherits from Object.prototype.
ObjectPrototypeKeys ==
    { <<"c", "o", "n", "s", "t", "r", "u", "c", "t", "o", "r">>,
      <<"t", "o", "S", "t", "r", "i", "n", "g">>,
      <<"v", "a", "l", "u", "e", "O", "f">>,
      <<"h", "a", "s", "O", "w", "n", "P", "r", "o", "p", "e", "r", "t", "y">>,
      <<"i", "s", "P", "r", "o", "t", "o", "t", "y", "p", "e", "O", "f">>,
      <<"p", "r", "o", "p", "e", "r", "t", "y", "I", "s", "E", "n", "u", "m", "e", "r", "a", "b", "l", "e">>,
      <<"t", "o", "L", "o", "c", "a", "l", "e", "S", "t", "r", "i", "n", "g">>,
      <<"_", "_", "p", "r", "o", "t", "o", "_", "_">>,
      <<"_", "_", "d", "e", "f", "i", "n", "e", "G", "e", "t", "t", "e", "r", "_", "_">>,
      <<"_", "_", "d", "e", "f", "i", "n", "e", "S", "e", "t", "t", "e", "r", "_", "_">>,
      <<"_", "_", "l", "o", "o", "k", "u", "p", "G", "e", "t", "t", "e", "r", "_", "_">>,
      <<"_", "_", "l", "o", "o", "k", "u", "p", "S", "e", "t", "t", "e", "r", "_", "_">> }

OwnKeys(groups) == { groups[i].repoName : i \in 1..Len(groups) }

KeyIndex(groups, name) == CHOOSE i \in 1..Len(groups) : groups[i].repoName = name

\* groupedPrs[repoName] is truthy.
GroupTruthy(groups, name) == name \in OwnKeys(groups) \/ name \in ObjectPrototypeKeys

\* groupedPrs[repoName].push is callable.
GroupPushable(groups, name) ==
    IF GroupTruthy(groups, name) THEN name \in OwnKeys(groups) ELSE TRUE

\* groupedPrs after the `if (!groupedPrs[repoName])` initialisation and the push.
GroupPush(groups, name, prData) ==
    LET initialised == IF ~GroupTruthy(groups, name)
                       THEN Append(groups, [repoName |-> name, prList |-> <<>>])
                       ELSE groups
        k == KeyIndex(initialised, name)
    IN [initialised EXCEPT ![k].prList = Append(@, prData)]

\* ------------------------------------------------------------------- sort
DateValue(ts) == ts[1] * 24 + ts[2]

\* Mutation: unmerged records compare as smaller, not larger.
CompareMergedNullsFirst(a, b) ==
    LET aNull == a.mergedAt = NoTs
        bNull == b.mergedAt = NoTs
    IN IF aNull /\ bNull THEN 0
       ELSE IF aNull THEN -1
       ELSE IF bNull THEN 1
       ELSE DateValue(a.mergedAt) - DateValue(b.mergedAt)

\* The comparator handed to prList.sort.
CompareMerged(a, b) ==
    LET aNull == a.mergedAt = NoTs
        bNull == b.mergedAt = NoTs
    IN IF aNull /\ bNull THEN 0
       ELSE IF aNull THEN 1
       ELSE IF bNull THEN -1
       ELSE DateValue(a.mergedAt) - DateValue(b.mergedAt)

\* Array.prototype.sort with CompareMerged (stable).
RECURSIVE InsertSorted(_, _)
InsertSorted(x, s) ==
    IF s = <<>> THEN <<x>>
    ELSE IF CompareMerged(Head(s), x) > 0 THEN <<x>> \o s
    ELSE <<Head(s)>> \o InsertSorted(x, Tail(s))

RECURSIVE SortPrList(_)
SortPrList(s) ==
    IF s = <<>> THEN <<>>
    ELSE InsertSorted(s[Len(s)], SortPrList(SubSeq(s, 1, Len(s) - 1)))

\* ------------------------------------------------------ report formatting
FormatEntry(pr) ==
    [number |-> pr.number,
     mergedOn |-> IF pr.mergedAt # NoTs
                  THEN [text |-> "date", at |-> pr.mergedAt]
                  ELSE [text |-> "Not Merged", at |-> NoTs],
     description |-> IF pr.description \notin {NoStr, ""} THEN pr.description
                     ELSE "(No description provided or failed to fetch)"]

formatRepoPrListForFile(repoName, prList) ==
    [repoName |-> repoName,
     total |-> Len(prList),
     entries |-> [i \in 1..Len(prList) |-> FormatEntry(prList[i])]]

ReservedChars == {"/", "\\", "?", "%", "*", ":", "|", "\"", "<", ">"}

\* repoName.replace(/[/\\?%*:|"<>]/g, '-')
Sanitize(name) ==
    [i \in 1..Len(name) |-> IF name[i] \in ReservedChars THEN "-" ELSE name[i]]

OutputFilename(repoName) ==
    Sanitize(repoName) \o <<"_prs_", START_DATE, "_to_", END_DATE, ".txt">>

\* The directory content after writeFileSync(name, content) succeeded.
WriteFile(fs, name, content) ==
    { f \in fs : f.name # name } \cup { [name |-> name, content |-> content] }

\* ------------------------------------------------------- main (main.js)
\* Mutation: no early return on an empty result.
MainAfterSearchNoEarlyReturn ==
    /\ pc = "main"
    /\ variant = "grouped"
    /\ pc' = "loop"
    /\ UNCHANGED << pageLog, variant, page, hasNextPage, allItems, searchResults, idx, cur,
                    groupedPrs, dirExists, files, gi, filesWritten, writeFailed,
                    detailFailed, printed, exitCode, trace >>

\* After fetchAllPages resolved: leave early on an empty result, else start
\* the detail loop.
MainAfterSearch ==
    /\ pc = "main"
    /\ variant = "grouped"
    /\ IF Len(searchResults) = 0
       THEN /\ pc' = "done"
            /\ exitCode' = 0
       ELSE /\ pc' = "loop"
            /\ UNCHANGED exitCode
    /\ UNCHANGED << pageLog, variant, page, hasNextPage, allItems, searchResults, idx, cur,
                    groupedPrs, dirExists, files, gi, filesWritten, writeFailed,
                    detailFailed, printed, trace >>

\* Top of one pass of the for-of loop: parse the repository URL, skip the item
\* when it does not parse, else issue the detail request.
LoopItem ==
    /\ pc = "loop"
    /\ idx <= Len(searchResults)
    /\ LET item == searchResults[idx]
           parsed == parseRepoUrl(item.repository_url)
       IN IF parsed.owner = <<>> \/ parsed.repoName = <<>>
          THEN /\ idx' = idx + 1
               /\ UNCHANGED << pc, cur, trace >>
          ELSE /\ cur' = parsed
               /\ trace' = Append(trace, Ev("detail", item.number))
               /\ pc' = "detail"
               /\ UNCHANGED idx
    /\ UNCHANGED << pageLog, variant, page, hasNextPage, allItems, searchResults, groupedPrs,
                    dirExists, files, gi, filesWritten, writeFailed, detailFailed,
                    printed, exitCode >>

\* The detail request settles: fetchPrDetails resolves, prData is built and
\* pushed to its group, and the delay is started.
DetailResponse ==
    /\ pc = "detail"
    /\ \E resp \in DetailResponsePool :
          LET item == searchResults[idx]
              prDetails == fetchPrDetails(resp)
              prData == PrData(item, cur.repoName, prDetails)
          IN /\ detailFailed' = IF DetailFetchFailed(resp)
                                THEN detailFailed \cup {item.number}
                                ELSE detailFailed
             /\ IF GroupPushable(groupedPrs, cur.repoName)
                THEN /\ groupedPrs' = GroupPush(groupedPrs, cur.repoName, prData)
                     /\ trace' = Append(trace, Ev("delay", DETAIL_FETCH_DELAY_MS))
                     /\ pc' = "delay"
                ELSE /\ pc' = "threw"
                     /\ UNCHANGED << groupedPrs, trace >>
    /\ UNCHANGED << pageLog, variant, page, hasNextPage, allItems, searchResults, idx, cur,
                    dirExists, files, gi, filesWritten, writeFailed, printed, exitCode >>

\* The delay elapses and the loop moves to the next item.
DelayElapsed ==
    /\ pc = "delay"
    /\ idx' = idx + 1
    /\ pc' = "loop"
    /\ UNCHANGED << pageLog, variant, page, hasNextPage, allItems, searchResults, cur, groupedPrs,
                    dirExists, files, gi, filesWritten, writeFailed, detailFailed,
                    printed, exitCode, trace >>

\* Mutation: a failed mkdirSync is only logged and the run goes on.
EnsureOutputDirSwallowsError ==
    /\ pc = "loop"
    /\ idx > Len(searchResults)
    /\ IF dirExists
       THEN UNCHANGED << dirExists, trace >>
       ELSE /\ trace' = Append(trace, Ev("mkdir", 0))
            /\ dirExists' \in BOOLEAN
    /\ pc' = "write"
    /\ gi' = 1
    /\ UNCHANGED << pageLog, variant, page, hasNextPage, allItems, searchResults, idx, cur,
                    groupedPrs, files, filesWritten, writeFailed, detailFailed,
                    printed, exitCode >>

\* The loop is over: ensure the output directory exists.
EnsureOutputDir ==
    /\ pc = "loop"
    /\ idx > Len(searchResults)
    /\ IF dirExists
       THEN /\ pc' = "write"
            /\ UNCHANGED << dirExists, trace >>
       ELSE /\ trace' = Append(trace, Ev("mkdir", 0))
            /\ \E ok \in BOOLEAN :
                  IF ok THEN dirExists' = TRUE /\ pc' = "write"
                        ELSE dirExists' = FALSE /\ pc' = "threw"
    /\ gi' = 1
    /\ UNCHANGED << pageLog, variant, page, hasNextPage, allItems, searchResults, idx, cur,
                    groupedPrs, files, filesWritten, writeFailed, detailFailed,
                    printed, exitCode >>

\* Mutation: a failed write is rethrown instead of being logged.
WriteGroupRethrows ==
    /\ pc = "write"
    /\ gi <= Len(groupedPrs)
    /\ LET repoName == groupedPrs[gi].repoName
           sorted == SortPrList(groupedPrs[gi].prList)
       IN /\ groupedPrs' = [groupedPrs EXCEPT ![gi].prList = sorted]
          /\ trace' = Append(trace, Ev("write", gi))
          /\ \E ok \in BOOLEAN :
                IF ok
                THEN /\ files' = WriteFile(files, OutputFilename(repoName),
                                          formatRepoPrListForFile(repoName, sorted))
                     /\ filesWritten' = filesWritten + 1
                     /\ pc' = pc
                     /\ UNCHANGED writeFailed
                ELSE /\ writeFailed' = writeFailed \cup {gi}
                     /\ pc' = "threw"
                     /\ UNCHANGED << files, filesWritten >>
    /\ gi' = gi + 1
    /\ UNCHANGED << pageLog, variant, page, hasNextPage, allItems, searchResults, idx, cur,
                    dirExists, detailFailed, printed, exitCode >>

\* One pass of the loop over Object.entries(groupedPrs): sort the group in
\* place, format it and write its file; a failed write is only logged.
WriteGroup ==
    /\ pc = "write"
    /\ gi <= Len(groupedPrs)
    /\ LET repoName == groupedPrs[gi].repoName
           prList == groupedPrs[gi].prList
       IN IF Len(prList) = 0
          THEN UNCHANGED << groupedPrs, files, filesWritten, writeFailed, trace >>
          ELSE LET sorted == SortPrList(prList)
                   fileContent == formatRepoPrListForFile(repoName, sorted)
                   outputFilename == OutputFilename(repoName)
               IN /\ groupedPrs' = [groupedPrs EXCEPT ![gi].prList = sorted]
                  /\ trace' = Append(trace, Ev("write", gi))
                  /\ \E ok \in BOOLEAN :
                        IF ok
                        THEN /\ files' = WriteFile(files, outputFilename, fileContent)
                             /\ filesWritten' = filesWritten + 1
                             /\ UNCHANGED writeFailed
                        ELSE /\ writeFailed' = writeFailed \cup {gi}
                             /\ UNCHANGED << files, filesWritten >>
    /\ gi' = gi + 1
    /\ UNCHANGED << pageLog, variant, pc, page, hasNextPage, allItems, searchResults, idx, cur,
                    dirExists, detailFailed, printed, exitCode >>

\* Every group was handled: main resolves and the process ends normally.
MainComplete ==
    /\ pc = "write"
    /\ gi > Len(groupedPrs)
    /\ pc' = "done"
    /\ exitCode' = 0
    /\ UNCHANGED << pageLog, variant, page, hasNextPage, allItems, searchResults, idx, cur,
                    groupedPrs, dirExists, files, gi, filesWritten, writeFailed,
                    detailFailed, printed, trace >>

\* --------------------------------------------- main (single-list script)
MapItem(item) == [number |-> item.number, mergedAt |-> item.merged_at]

\* Mutation: the empty list is reported without the "no matching" line.
UngroupedReportSilentWhenEmpty ==
    /\ pc = "main"
    /\ variant = "ungrouped"
    /\ LET prList == SortPrList([i \in 1..Len(searchResults) |-> MapItem(searchResults[i])])
       IN printed' = [shown |-> TRUE,
                      total |-> Len(prList),
                      noMatch |-> FALSE,
                      entries |-> prList]
    /\ pc' = "done"
    /\ exitCode' = 0
    /\ UNCHANGED << pageLog, variant, page, hasNextPage, allItems, searchResults, idx, cur,
                    groupedPrs, dirExists, files, gi, filesWritten, writeFailed,
                    detailFailed, trace >>

\* After fetchAllPages resolved: map, sort and print the list.
UngroupedReport ==
    /\ pc = "main"
    /\ variant = "ungrouped"
    /\ LET prList == SortPrList([i \in 1..Len(searchResults) |-> MapItem(searchResults[i])])
       IN printed' = [shown |-> TRUE,
                      total |-> Len(prList),
                      noMatch |-> Len(prList) = 0,
                      entries |-> prList]
    /\ pc' = "done"
    /\ exitCode' = 0
    /\ UNCHANGED << pageLog, variant, page, hasNextPage, allItems, searchResults, idx, cur,
                    groupedPrs, dirExists, files, gi, filesWritten, writeFailed,
                    detailFailed, trace >>

\* --------------------------------------------------------- specifications
Next ==
    \/ SearchPage
    \/ FetchAllPagesReturn
    \/ MainCatch
    \/ MainAfterSearch
    \/ LoopItem
    \/ DetailResponse
    \/ DelayElapsed
    \/ EnsureOutputDir
    \/ WriteGroup
    \/ MainComplete
    \/ UngroupedReport

Spec == Init /\ [][Next]_vars

\* fetchAllPages alone, on a result set long enough to reach the page limit.
NextPages ==
    \/ SearchPageDeep
    \/ FetchAllPagesReturn
    \/ MainCatch

SpecPages == Init /\ [][NextPages]_vars

\* ------------------------------------------------------------- properties
\* The pages asked of the search endpoint, in request order.
SearchPagesRequested ==
    LET searches == SelectSeq(trace, LAMBDA e : e.op = "search")
    IN [i \in 1..Len(searches) |-> searches[i].n]

OpsIssued(op) == Len(SelectSeq(trace, LAMBDA e : e.op = op))

StatusSuccess(resp) == resp.status \in 200..299

\* The k-th search response was successful and exhausts the result set.
ExhaustedAt(k) ==
    /\ StatusSuccess(pageLog[k])
    /\ Len(pageLog[k].items) = 0 \/ ~pageLog[k].link_next

AllOkBefore(k) == \A j \in 1..(k - 1) : StatusSuccess(pageLog[j])

RECURSIVE ConcatPages(_)
ConcatPages(log) ==
    IF log = <<>> THEN <<>>
    ELSE ConcatPages(SubSeq(log, 1, Len(log) - 1)) \o log[Len(log)].items

\* fetchAllPages returned normally (it did not throw).
SearchReturned ==
    /\ pc # "search"
    /\ pageLog # <<>>
    /\ StatusSuccess(pageLog[Len(pageLog)])

\* C1: when the responses are successful and some page before page 30 has no
\* items or no rel="next" link, the fetcher stops exactly at the first such
\* page k: pages 1..k were requested, in order, page k+1 never is, and the
\* fetcher did not stop at an earlier page that had items and a next link.
C1_StopsAtFirstExhaustedPage ==
    /\ \A k \in 1..Len(pageLog) :
          (k < PageLimit /\ AllOkBefore(k) /\ ExhaustedAt(k))
              => /\ Len(pageLog) = k
                 /\ ~hasNextPage
                 /\ SearchPagesRequested = [i \in 1..k |-> i]
    /\ (/\ pc = "search"
        /\ pageLog # <<>>
        /\ Len(pageLog) < PageLimit
        /\ StatusSuccess(pageLog[Len(pageLog)])
        /\ ~ExhaustedAt(Len(pageLog)))
           => hasNextPage

C1_Witness ==
    /\ pc = "main"
    /\ Len(pageLog) = 3
    /\ ExhaustedAt(3)
    /\ Len(pageLog[3].items) > 0
    /\ SearchPagesRequested = <<1, 2, 3>>

\* C2: never more than 30 search requests; when page 30 succeeds and still
\* has items and a next link, the fetcher stops without throwing and returns
\* the items of pages 1..30 concatenated in page order.
C2_PageCapTruncates ==
    /\ OpsIssued("search") <= PageLimit
    /\ Len(pageLog) <= PageLimit
    /\ (/\ Len(pageLog) = PageLimit
        /\ StatusSuccess(pageLog[PageLimit])
        /\ ~ExhaustedAt(PageLimit))
           => /\ ~hasNextPage
              /\ pc \in {"search", "main"}
              /\ exitCode # 1
              /\ allItems = ConcatPages(pageLog)
              /\ pc = "main" => searchResults = ConcatPages(pageLog)

C2_Witness ==
    /\ pc = "main"
    /\ Len(pageLog) = PageLimit
    /\ ~ExhaustedAt(PageLimit)
    /\ Len(searchResults) = PageLimit
    /\ searchResults[PageLimit].number = PageLimit

\* C3: a search request that gets a non-success response or fails at network
\* level aborts the run: it is the last search request, no detail request, no
\* directory creation and no file write is ever issued, nothing is reported,
\* and the process ends with exit status 1.
C3_SearchFailureAborts ==
    (\E k \in 1..Len(pageLog) : ~StatusSuccess(pageLog[k]))
        => /\ ~StatusSuccess(pageLog[Len(pageLog)])
           /\ AllOkBefore(Len(pageLog))
           /\ OpsIssued("search") = Len(pageLog)
           /\ OpsIssued("detail") = 0
           /\ OpsIssued("mkdir") = 0
           /\ OpsIssued("write") = 0
           /\ files = {}
           /\ filesWritten = 0
           /\ ~printed.shown
           /\ pc \in {"threw", "exited"}
           /\ exitCode # 0
           /\ pc = "exited" => exitCode = 1

C3_Witness ==
    /\ variant = "grouped"
    /\ pc = "exited"
    /\ exitCode = 1
    /\ Len(pageLog) = 2
    /\ pageLog[2].status = 500
    /\ Len(allItems) > 0

\* C5: a sort step leaves the unmerged records after all merged ones, the
\* merged ones in ascending order of merge time, and only permutes the list:
\* in each group main.js writes, and in the whole list of the single-list
\* script.
NullsLast(s) ==
    \A i, j \in 1..Len(s) :
        (s[i].mergedAt = NoTs /\ s[j].mergedAt # NoTs) => j < i

AscendingMerged(s) ==
    \A i, j \in 1..Len(s) :
        (i < j /\ s[i].mergedAt # NoTs /\ s[j].mergedAt # NoTs)
            => s[i].mergedAt[1] * 24 + s[i].mergedAt[2] <= s[j].mergedAt[1] * 24 + s[j].mergedAt[2]

Occurrences(s, x) == Cardinality({ i \in 1..Len(s) : s[i] = x })

IsPermutation(s, t) ==
    /\ Len(s) = Len(t)
    /\ \A i \in 1..Len(s) : Occurrences(s, s[i]) = Occurrences(t, s[i])

C5_SortStep ==
    /\ (pc = "write" /\ gi' = gi + 1)
          => /\ Len(groupedPrs') = Len(groupedPrs)
             /\ NullsLast(groupedPrs'[gi].prList)
             /\ AscendingMerged(groupedPrs'[gi].prList)
             /\ IsPermutation(groupedPrs[gi].prList, groupedPrs'[gi].prList)
             /\ \A g \in 1..Len(groupedPrs) : g # gi => groupedPrs'[g] = groupedPrs[g]
    /\ (pc = "main" /\ variant = "ungrouped" /\ pc' = "done")
          => /\ NullsLast(printed'.entries)
             /\ AscendingMerged(printed'.entries)
             /\ IsPermutation([i \in 1..Len(searchResults) |-> MapItem(searchResults[i])],
                              printed'.entries)

C5_SortOrdersRecords == [][C5_SortStep]_vars

\* A written group of two records that the sort had to reorder: the record of
\* the later search item comes first and the unmerged one last.
C5_Witness ==
    /\ pc \in {"write", "done"}
    /\ gi > 1
    /\ Len(groupedPrs[1].prList) = 2
    /\ groupedPrs[1].prList[1].number > groupedPrs[1].prList[2].number
    /\ groupedPrs[1].prList[1].mergedAt # NoTs
    /\ groupedPrs[1].prList[2].mergedAt = NoTs

\* C7: a run of main.js whose search returns no item ends normally with exit
\* status 0, never enters the error path, issues no detail request, creates
\* no directory and writes no file.
C7_ZeroResultsGrouped ==
    (variant = "grouped" /\ SearchReturned /\ Len(ConcatPages(pageLog)) = 0)
        => /\ pc \in {"main", "done"}
           /\ exitCode # 1
           /\ pc = "done" => exitCode = 0
           /\ OpsIssued("detail") = 0
           /\ OpsIssued("mkdir") = 0
           /\ OpsIssued("write") = 0
           /\ files = {}
           /\ filesWritten = 0

C7_Witness ==
    /\ variant = "grouped"
    /\ pc = "done"
    /\ exitCode = 0
    /\ SearchReturned
    /\ searchResults = <<>>
    /\ trace = << Ev("search", 1) >>

C10_WriteFailureNotFatal ==
    /\ (variant = "grouped" /\ pc = "write")
          => /\ OpsIssued("write") = gi - 1
             /\ writeFailed \subseteq 1..(gi - 1)
             /\ filesWritten = (gi - 1) - Cardinality(writeFailed)
    /\ (variant = "grouped" /\ pc = "done" /\ Len(searchResults) > 0)
          => /\ OpsIssued("write") = Len(groupedPrs)
             /\ filesWritten = Len(groupedPrs) - Cardinality(writeFailed)
             /\ exitCode = 0
    /\ writeFailed # {} => (pc \in {"write", "done"} /\ exitCode # 1)

C10_Witness ==
    /\ pc = "done"
    /\ Len(groupedPrs) = 2
    /\ writeFailed = {1}
    /\ filesWritten = 1
    /\ Cardinality(files) = 1
    /\ exitCode = 0

\* Where the records of search item number n are held: (group, position).
RecordsOf(n) ==
    { gk \in UNION { { <<g, k>> : k \in 1..Len(groupedPrs[g].prList) } : g \in 1..Len(groupedPrs) } :
          groupedPrs[gk[1]].prList[gk[2]].number = n }

\* The pass of the detail loop for search item i is over.
LoopPassOver(i) ==
    \/ i < idx
    \/ i = idx /\ pc \in {"delay", "threw", "exited"}

\* C4: whatever way a detail request fails (404, rate limit, another
\* non-success status, network failure), the item still gets its record, with
\* a null description, and the run is not aborted at that item.
C4_DetailFailureNotFatal ==
    \A n \in detailFailed :
        /\ \E gk \in RecordsOf(n) :
              groupedPrs[gk[1]].prList[gk[2]].description = NoStr
        /\ ~(idx = n /\ pc \in {"threw", "exited"})

\* C6: once the loop has passed a search item, the item has exactly one
\* record, in the group keyed by its repository name, when its repository
\* URL parses, and no record and no detail request when it does not.
C6_EveryItemInItsGroup ==
    variant = "grouped" =>
        \A i \in 1..Len(searchResults) :
            LoopPassOver(i) =>
                LET item == searchResults[i]
                    requests == Len(SelectSeq(trace, LAMBDA e : e.op = "detail" /\ e.n = item.number))
                IN IF Parseable(item)
                   THEN /\ Cardinality(RecordsOf(item.number)) = 1
                        /\ \A gk \in RecordsOf(item.number) :
                              groupedPrs[gk[1]].repoName = parseRepoUrl(item.repository_url).repoName
                        /\ requests = 1
                   ELSE /\ RecordsOf(item.number) = {}
                        /\ requests = 0

\* C9: two groups whose names differ only in characters the sanitization
\* replaces do not overwrite each other: when both writes succeeded, both
\* reports are on disk at the end of the run.
C9_NoDestructiveCollision ==
    pc = "done" =>
        \A i, j \in 1..Len(groupedPrs) :
            (/\ i # j
             /\ Sanitize(groupedPrs[i].repoName) = Sanitize(groupedPrs[j].repoName)
             /\ i \notin writeFailed
             /\ j \notin writeFailed)
                => /\ \E f \in files : f.content.repoName = groupedPrs[i].repoName
                   /\ \E f \in files : f.content.repoName = groupedPrs[j].repoName

\* mkdirSync was called and the output directory still does not exist.
MkdirFailed == OpsIssued("mkdir") > 0 /\ ~dirExists

\* C11: when creating the output directory fails in main.js, the run is
\* fatal: no write is attempted for any group, no file exists, and the
\* process ends with exit status 1, although the detail loop had completed
\* (every detail request issued had been answered and followed by its delay).
C11_MkdirFailureFatal ==
    (variant = "grouped" /\ MkdirFailed)
        => /\ OpsIssued("mkdir") = 1
           /\ pc \in {"threw", "exited"}
           /\ exitCode # 0
           /\ pc = "exited" => exitCode = 1
           /\ OpsIssued("write") = 0
           /\ files = {}
           /\ filesWritten = 0
           /\ writeFailed = {}
           /\ idx > Len(searchResults)
           /\ OpsIssued("delay") = OpsIssued("detail")
           /\ trace[Len(trace)].op = "mkdir"

C11_Witness ==
    /\ variant = "grouped"
    /\ MkdirFailed
    /\ pc = "exited"
    /\ exitCode = 1
    /\ Len(groupedPrs) = 2
    /\ OpsIssued("detail") = 2
    /\ OpsIssued("write") = 0

\* The numbers of the detail requests, in the order they were issued.
DetailNumbersRequested ==
    LET details == SelectSeq(trace, LAMBDA e : e.op = "detail")
    IN [i \in 1..Len(details) |-> details[i].n]

\* The numbers of the search items whose repository URL parses, in
\* search-result order.
ParseableNumbers ==
    LET kept == SelectSeq(searchResults, Parseable)
    IN [i \in 1..Len(kept) |-> kept[i].number]

\* The run has left the detail loop, normally or not.
DetailLoopLeft ==
    /\ SearchReturned
    /\ Len(searchResults) > 0
    /\ pc \in {"write", "done", "threw", "exited"}

\* C12: the operations of a run of main.js are totally ordered: the search
\* requests all precede the first detail request; a detail request is
\* outstanding only while the run waits for it, and the next operation after
\* it is its fixed delay; the detail requests are one per parseable search
\* item, in search-result order; directory creation and file writes come
\* after the last detail request and its delay.
C12_OperationsTotallyOrdered ==
    variant = "grouped" =>
        /\ \A i, j \in 1..Len(trace) :
              (i < j /\ trace[j].op = "search") => trace[i].op = "search"
        /\ \A i, j \in 1..Len(trace) :
              (i < j /\ trace[i].op \in {"mkdir", "write"}) => trace[j].op \in {"mkdir", "write"}
        /\ \A i \in 1..(Len(trace) - 1) :
              trace[i].op = "detail"
                  => (trace[i + 1].op = "delay" /\ trace[i + 1].n = DETAIL_FETCH_DELAY_MS)
        /\ pc = "detail" => trace[Len(trace)] = Ev("detail", searchResults[idx].number)
        /\ OpsIssued("detail") - OpsIssued("delay") \in {0, 1}
        /\ DetailNumbersRequested = SubSeq(ParseableNumbers, 1, Len(DetailNumbersRequested))
        /\ DetailLoopLeft => DetailNumbersRequested = ParseableNumbers
        /\ (OpsIssued("mkdir") + OpsIssued("write") > 0)
              => OpsIssued("delay") = Len(ParseableNumbers)

====
